---------------------------- MODULE Spec2Model ----------------------------
(***************************************************************************)
(* Model of scripts/bench_summary.py: the criterion benchmark summariser.  *)
(*                                                                         *)
(* Numbers.  Python computes throughput and speedup in IEEE-754 binary64.  *)
(* A float is modelled bit for bit as [s, m, e]: sign s, 53-bit mantissa m *)
(* kept as two limbs <<hi, lo>> of base 2^26, and exponent e, standing for *)
(* s * m * 2^e.  Division rounds to nearest, ties to even, as the hardware *)
(* does, and "%.Nf" formatting rounds the exact binary value of the float  *)
(* half-even, as Python does.  The mean_ns values the model draws are      *)
(* integers; exponents stay far inside the normal range, so overflow,      *)
(* underflow and subnormals do not occur.                                  *)
(*                                                                         *)
(* Exceptions.  A Python call either returns a value or raises; it is      *)
(* modelled as an outcome record [exc |-> name or "none", val |-> value].  *)
(***************************************************************************)
EXTENDS Integers, Sequences, FiniteSets, TLC

VARIABLES
    mode,         \* "compact" (no argument) or "detailed" (--detailed)
    fs,           \* the file system under target/criterion (the input)
    pc,           \* position of the running script
    groups,       \* local `groups`: the sorted directory listing
    idx,          \* position of the running for-loop in its sequence
    all_results,  \* local `all_results` of print_full_table
    results,      \* local `results` of print_detailed (last group summarised)
    out,          \* lines printed on standard output so far
    exit,         \* <<>> while the process runs, then <<its exit status>>
    err,          \* name of the uncaught exception that ended the process
    call          \* last direct call of a leaf function

vars == <<mode, fs, pc, groups, idx, all_results, results, out, exit, err, call>>

----------------------------------------------------------------------------
(* Python floats: IEEE-754 binary64 *)

Abs(x) == IF x < 0 THEN -x ELSE x

RECURSIVE Pow2(_)
Pow2(k) == IF k = 0 THEN 1 ELSE 2 * Pow2(k - 1)

RECURSIVE Pow10(_)
Pow10(k) == IF k = 0 THEN 1 ELSE 10 * Pow10(k - 1)

\* the base of a limb, 2^26, and the top limb of 2^52 and of 2^53
Limb    == 8192 * 8192
HiMin   == Limb
HiLimit == 2 * Limb

\* natural numbers below 2^57 as <<hi, lo>> = hi * 2^26 + lo, 0 <= lo < 2^26
BigGeq(a, b) == a[1] > b[1] \/ (a[1] = b[1] /\ a[2] >= b[2])
BigSub(a, b) ==
    IF a[2] >= b[2] THEN <<a[1] - b[1], a[2] - b[2]>>
    ELSE <<a[1] - b[1] - 1, a[2] + Limb - b[2]>>
BigDouble(a) == <<2 * a[1] + (2 * a[2]) \div Limb, (2 * a[2]) % Limb>>
BigInc(a) == IF a[2] + 1 = Limb THEN <<a[1] + 1, 0>> ELSE <<a[1], a[2] + 1>>

\* the float s * m * 2^e, s = 1 or -1, with 2^52 <= m < 2^53 unless it is
\* zero; a zero has m = <<0, 0>>, e = 0 and keeps its sign: 0.0 and -0.0
Float(s, m, e) == [s |-> s, m |-> m, e |-> e]
FloatZero == Float(1, <<0, 0>>, 0)
IsZero(a) == a.m = <<0, 0>>

\* shift a non-zero mantissa left until its top bit is bit 52: by a whole
\* limb, by half a limb (2^13 = 8192), then bit by bit
RECURSIVE Normalize(_, _, _)
Normalize(s, m, e) ==
    IF m[1] >= HiMin THEN Float(s, m, e)
    ELSE IF m[1] = 0 THEN Normalize(s, <<m[2], 0>>, e - 26)
    ELSE IF m[1] < 8192
    THEN Normalize(s, <<m[1] * 8192 + m[2] \div 8192, (m[2] % 8192) * 8192>>, e - 13)
    ELSE Normalize(s, BigDouble(m), e - 1)

\* float(n) for a Python int n, |n| < 2^31: exact
FromInt(n) ==
    IF n = 0 THEN FloatZero
    ELSE Normalize(IF n < 0 THEN -1 ELSE 1,
                   <<Abs(n) \div Limb, Abs(n) % Limb>>, 0)

\* one more quotient bit of the long division by d: the remainder is
\* doubled and d taken off it when it fits; st = <<quotient, remainder>>
DivStep(st, d) ==
    LET rl == 2 * st[2][2]
        rh == 2 * st[2][1] + rl \div Limb
        lo == rl % Limb
        ql == 2 * st[1][2]
        qh == 2 * st[1][1] + ql \div Limb
    IN  IF rh > d[1] \/ (rh = d[1] /\ lo >= d[2])
        THEN <<<<qh, (ql % Limb) + 1>>,
               IF lo >= d[2] THEN <<rh - d[1], lo - d[2]>>
               ELSE <<rh - d[1] - 1, lo + Limb - d[2]>>>>
        ELSE <<<<qh, ql % Limb>>, <<rh, lo>>>>

\* quotient bits until the quotient has 53 of them
RECURSIVE DivSteps(_, _)
DivSteps(st, d) ==
    IF st[1][1] >= HiMin THEN st ELSE DivSteps(DivStep(st, d), d)

\* the 53-bit quotient qr[1] with remainder qr[2] of a division by d, rounded
\* to nearest with ties to even: up when twice the remainder exceeds d, or
\* equals it and the quotient is odd
RoundQuotient(s, qr, d, e) ==
    LET r2 == BigDouble(qr[2])
        q  == IF (BigGeq(r2, d) /\ r2 # d) \/ (r2 = d /\ qr[1][2] % 2 = 1)
              THEN BigInc(qr[1]) ELSE qr[1]
    IN  IF q[1] = HiLimit THEN Float(s, <<HiMin, 0>>, e + 1)
        ELSE Float(s, q, e)

\* a / b for floats, b # 0: the 53-bit quotient of the mantissas, rounded to
\* nearest with ties to even.  The mantissas lie in [2^52, 2^53), so the
\* quotient starts with a 1 at once when a.m >= b.m and one bit later
\* otherwise.  Dividing by a power of two only moves the exponent.  A zero
\* divided gives a zero with the sign of the quotient.
FloatDiv(a, b) ==
    IF IsZero(a) THEN Float(a.s * b.s, <<0, 0>>, 0)
    ELSE IF b.m = <<HiMin, 0>> THEN Float(a.s * b.s, a.m, a.e - b.e - 52)
    ELSE IF BigGeq(a.m, b.m)
    THEN RoundQuotient(a.s * b.s, DivSteps(<<<<0, 1>>, BigSub(a.m, b.m)>>, b.m),
                       b.m, a.e - b.e - 52)
    ELSE RoundQuotient(a.s * b.s, DivSteps(<<<<0, 0>>, a.m>>, b.m),
                       b.m, a.e - b.e - 53)

\* a < b for floats; 0.0 and -0.0 compare equal
MagLess(a, b) == a.e < b.e \/ (a.e = b.e /\ ~BigGeq(a.m, b.m))
FloatLess(a, b) ==
    IF IsZero(a) THEN ~IsZero(b) /\ b.s = 1
    ELSE IF IsZero(b) THEN a.s = -1
    ELSE IF a.s # b.s THEN a.s < b.s
    ELSE IF a.s = 1 THEN MagLess(a, b)
    ELSE MagLess(b, a)

----------------------------------------------------------------------------
(* Python's fixed-point formatting, f"{x:.Nf}" *)

\* natural numbers below 2^83 as <<a2, a1, a0>>, limbs of base 2^26
TriMul10(t) ==
    LET l0 == t[3] * 10
        l1 == t[2] * 10 + l0 \div Limb
        l2 == t[1] * 10 + l1 \div Limb
    IN  <<l2, l1 % Limb, l0 % Limb>>

RECURSIVE TriMulPow10(_, _)
TriMulPow10(t, k) == IF k = 0 THEN t ELSE TriMulPow10(TriMul10(t), k - 1)

TriLess(a, b) ==
    \/ a[1] < b[1]
    \/ a[1] = b[1] /\ a[2] < b[2]
    \/ a[1] = b[1] /\ a[2] = b[2] /\ a[3] < b[3]

\* x * 2^j, nothing computed when x = 0
ShiftLeft(x, j) == IF x = 0 THEN 0 ELSE x * Pow2(j)

\* t split at bit sh >= 0: [n |-> t div 2^sh, r |-> t mod 2^sh]; n has to
\* fit an integer
TriSplit(t, sh) ==
    LET a == sh \div 26
        b == sh % 26
        p == Pow2(b)
    IN  IF a <= 0
        THEN [n |-> ShiftLeft(t[1], 52 - sh) + ShiftLeft(t[2], 26 - sh) + t[3] \div p,
              r |-> <<0, 0, t[3] % p>>]
        ELSE IF a = 1
        THEN [n |-> ShiftLeft(t[1], 26 - b) + t[2] \div p,
              r |-> <<0, t[2] % p, t[3]>>]
        ELSE IF a = 2
        THEN [n |-> t[1] \div p, r |-> <<t[1] % p, t[2], t[3]>>]
        ELSE [n |-> 0, r |-> t]

\* 2^h as three limbs, h < 78
TriPow2(h) ==
    LET a == h \div 26
        p == Pow2(h % 26)
    IN  IF a = 0 THEN <<0, 0, p>> ELSE IF a = 1 THEN <<0, p, 0>> ELSE <<p, 0, 0>>

RECURSIVE ZeroPadLeft(_, _)
ZeroPadLeft(s, w) == IF Len(s) >= w THEN s ELSE ZeroPadLeft("0" \o s, w)

\* the digits: integer part, point, fraction; a fraction rounded up to
\* 10^decimals carries into the integer part
FixedDigits(s, ipart, fr, decimals) ==
    (IF s < 0 THEN "-" ELSE "")
        \o ToString(IF fr = Pow10(decimals) THEN ipart + 1 ELSE ipart)
        \o "."
        \o ZeroPadLeft(ToString(IF fr = Pow10(decimals) THEN 0 ELSE fr), decimals)

\* the fraction frac.n / 10^decimals, left with frac.r / 2^sh of a unit in
\* its last digit: up when that is more than a half, or a half and the last
\* digit odd
FixedRound(s, ipart, frac, sh, decimals) ==
    IF /\ sh >= 1
       /\ sh <= 78
       /\ \/ TriLess(TriPow2(sh - 1), frac.r)
          \/ TriPow2(sh - 1) = frac.r /\ frac.n % 2 = 1
    THEN FixedDigits(s, ipart, frac.n + 1, decimals)
    ELSE FixedDigits(s, ipart, frac.n, decimals)

\* the mantissa split at the binary point into whole.n and whole.r / 2^sh
FixedWhole(s, whole, sh, decimals) ==
    FixedRound(s, whole.n, TriSplit(TriMulPow10(whole.r, decimals), sh), sh, decimals)

\* f"{x:.{decimals}f}" for a float x, |x| < 2^31, decimals in 1..7: the
\* exact binary value rounded to `decimals` digits, ties to even; the sign
\* is kept even when the magnitude rounds to zero
FormatFixed(x, decimals) ==
    FixedWhole(x.s, TriSplit(<<x.m[1] \div Limb, x.m[1] % Limb, x.m[2]>>, -x.e),
               -x.e, decimals)

\* f"{s:<w}": left-aligned in a field of width w, never truncated
RECURSIVE PadRight(_, _)
PadRight(s, w) == IF Len(s) >= w THEN s ELSE PadRight(s \o " ", w)

\* "c" * n
RECURSIVE Repeat(_, _)
Repeat(c, n) == IF n = 0 THEN "" ELSE c \o Repeat(c, n - 1)

----------------------------------------------------------------------------
(* Outcomes of Python calls *)

Return(v) == [exc |-> "none", val |-> v]
Raise(e)  == [exc |-> e, val |-> [t |-> "raised"]]
None      == [t |-> "None"]

\* a dict after d[key] = value: the key is added, or its value replaced
Store(d, key, value) ==
    [k \in DOMAIN d \cup {key} |-> IF k = key THEN value ELSE d[k]]

----------------------------------------------------------------------------
(* get_throughput *)

NsPerSecond == 1000000000
BytesPerMB  == 1024 * 1024
MBPerGB     == 1024
GBThreshold == 1000

\* seconds = mean_ns / 1_000_000_000
Seconds(mean_ns) == FloatDiv(FromInt(mean_ns), FromInt(NsPerSecond))

\* mb_per_sec = (size_bytes / seconds) / (1024 * 1024)
MbPerSec(mean_ns, size_bytes) ==
    FloatDiv(FloatDiv(FromInt(size_bytes), Seconds(mean_ns)), FromInt(BytesPerMB))

\* ThroughputPair with `>` for `>=` in the comparison with the threshold
ThroughputPair_strict(mb_per_sec) ==
    IF FloatLess(FromInt(GBThreshold), mb_per_sec)
    THEN <<mb_per_sec, FormatFixed(FloatDiv(mb_per_sec, FromInt(MBPerGB)), 2) \o " GB/s">>
    ELSE <<mb_per_sec, FormatFixed(mb_per_sec, 1) \o " MB/s">>

\* the two return statements: the pair (mb_per_sec, formatted)
ThroughputPair(mb_per_sec) ==
    IF ~FloatLess(mb_per_sec, FromInt(GBThreshold))
    THEN <<mb_per_sec, FormatFixed(FloatDiv(mb_per_sec, FromInt(MBPerGB)), 2) \o " GB/s">>
    ELSE <<mb_per_sec, FormatFixed(mb_per_sec, 1) \o " MB/s">>

\* get_throughput returning ThroughputPair_strict
get_throughput_strict(mean_ns, size_bytes) ==
    IF mean_ns.t # "num" THEN Raise("TypeError")
    ELSE IF mean_ns.v = 0 THEN Raise("ZeroDivisionError")
    ELSE Return(ThroughputPair_strict(MbPerSec(mean_ns.v, size_bytes)))

\* mean_ns is a JSON scalar [t |-> "num", v |-> integer] or [t |-> "str", ...]
get_throughput(mean_ns, size_bytes) ==
    IF mean_ns.t # "num" THEN Raise("TypeError")
    ELSE IF mean_ns.v = 0 THEN Raise("ZeroDivisionError")
    ELSE Return(ThroughputPair(MbPerSec(mean_ns.v, size_bytes)))

----------------------------------------------------------------------------
(* JSON values and the file system *)

JNum(v) == [t |-> "num", v |-> v]
JStr(s) == [t |-> "str", s |-> s]
JArr    == [t |-> "arr"]
JObj(f) == [t |-> "obj", f |-> f]

\* Python's x[key] with a string key on a value loaded from JSON
Subscript(x, key) ==
    IF x.t = "obj"
    THEN IF key \in DOMAIN x.f THEN Return(x.f[key]) ELSE Raise("KeyError")
    ELSE Raise("TypeError")

\* a directory: names mapped to entries
Dir(entries) == [kind |-> "dir", entries |-> entries]
\* a regular file, content not looked at
File == [kind |-> "file"]
\* a size directory, described by what opening new/estimates.json meets:
\*   "absent"      no such file or no directory `new`
\*   "new_is_file" `new` is a regular file
\*   "is_dir"      estimates.json is a directory
\*   "not_utf8"    bytes that are not UTF-8 text
\*   "garbage"     text that is not JSON
\*   "json"        a JSON document, whose value is `data`
SizeDir(file, data) == [kind |-> "dir", file |-> file, data |-> data]

\* the entries of f together with those of g under other names
Both(f, g) ==
    [k \in DOMAIN f \cup DOMAIN g |-> IF k \in DOMAIN f THEN f[k] ELSE g[k]]

\* the names under a path and what they are; nothing exists under a path
\* that is not a directory
Entries(e) == IF e.kind = "dir" THEN e.entries ELSE <<>>

----------------------------------------------------------------------------
(* parse_estimates *)

\* open(path / "new" / "estimates.json") followed by json.load
LoadJson(path) ==
    IF path.kind # "dir" THEN Raise("NotADirectoryError")
    ELSE IF path.file = "absent" THEN Raise("FileNotFoundError")
    ELSE IF path.file = "new_is_file" THEN Raise("NotADirectoryError")
    ELSE IF path.file = "is_dir" THEN Raise("IsADirectoryError")
    ELSE IF path.file = "not_utf8" THEN Raise("UnicodeDecodeError")
    ELSE IF path.file = "garbage" THEN Raise("JSONDecodeError")
    ELSE Return(path.data)

\* data[outer]["point_estimate"]
PointEstimate(data, outer) ==
    LET o == Subscript(data, outer)
    IN  IF o.exc # "none" THEN o ELSE Subscript(o.val, "point_estimate")

\* the exceptions named by the except clause
Caught == {"FileNotFoundError", "JSONDecodeError", "KeyError"}

\* the body of the try block
ParseBody(path) ==
    LET d == LoadJson(path)
    IN  IF d.exc # "none" THEN d
        ELSE LET m == PointEstimate(d.val, "mean")
             IN  IF m.exc # "none" THEN m
                 ELSE LET s == PointEstimate(d.val, "std_dev")
                      IN  IF s.exc # "none" THEN s
                          ELSE Return([t |-> "dict", mean_ns |-> m.val,
                                       std_dev_ns |-> s.val])

parse_estimates(path) ==
    LET b == ParseBody(path)
    IN  IF b.exc \in Caught THEN Return(None) ELSE b

----------------------------------------------------------------------------
(* summarize_dictionary *)

paths == <<"Scalar", "LUT", "Specialized">>
sizes == <<64, 256, 1024, 4096, 16384, 65536>>

\* results[path][size] = {**estimates, "throughput": ..., "throughput_mbps": ...}
SizeRecord(estimates, tp) ==
    [mean_ns         |-> estimates.mean_ns,
     std_dev_ns      |-> estimates.std_dev_ns,
     throughput      |-> tp[2],
     throughput_mbps |-> tp[1]]

RECURSIVE SizeLoop(_, _, _)

\* the iteration for sizes[i] once get_throughput has given the outcome tp
WithThroughput(path_dir, i, acc, estimates, tp) ==
    IF tp.exc # "none" THEN tp
    ELSE SizeLoop(path_dir, i + 1, Store(acc, sizes[i], SizeRecord(estimates, tp.val)))

\* the iteration for sizes[i] once parse_estimates has given the outcome
\* estimates; `if estimates` fails on None
WithEstimates(path_dir, i, acc, estimates) ==
    IF estimates.exc # "none" THEN estimates
    ELSE IF estimates.val.t = "None" THEN SizeLoop(path_dir, i + 1, acc)
    ELSE WithThroughput(path_dir, i, acc, estimates.val,
                        get_throughput(estimates.val.mean_ns, sizes[i]))

\* the inner loop over sizes[i..], `acc` being results[path] so far
SizeLoop(path_dir, i, acc) ==
    IF i > Len(sizes) THEN Return(acc)
    ELSE IF ToString(sizes[i]) \notin DOMAIN Entries(path_dir)
    THEN SizeLoop(path_dir, i + 1, acc)
    ELSE WithEstimates(path_dir, i, acc,
                       parse_estimates(Entries(path_dir)[ToString(sizes[i])]))

RECURSIVE PathLoop(_, _, _)

\* the iteration for paths[i] once the inner loop has given the outcome inner
WithInner(group_dir, i, acc, inner) ==
    IF inner.exc # "none" THEN inner
    ELSE PathLoop(group_dir, i + 1, Store(acc, paths[i], inner.val))

\* the outer loop over paths[i..], `acc` being results so far
PathLoop(group_dir, i, acc) ==
    IF i > Len(paths) THEN Return(acc)
    ELSE IF paths[i] \notin DOMAIN Entries(group_dir)
    THEN PathLoop(group_dir, i + 1, acc)
    ELSE WithInner(group_dir, i, acc,
                   SizeLoop(Entries(group_dir)[paths[i]], 1, <<>>))

summarize_dictionary(group_dir) == PathLoop(group_dir, 1, <<>>)

----------------------------------------------------------------------------
(* The inputs: what target/criterion may hold *)

\* the positive means of the plain records are 500, 1000, ..., 500 * MaxMeanSteps
MaxMeanSteps == 2

\* an estimates.json as criterion writes it, with the given mean point estimate
Estimates(mean) ==
    SizeDir("json", JObj([mean    |-> JObj([point_estimate |-> mean]),
                          std_dev |-> JObj([point_estimate |-> JNum(10)])]))

\* well-formed records: positive means, and one negative mean
GoodMeans == {500 * k : k \in 1..MaxMeanSteps} \cup {-1000}

\* a variant directory holding only a 65536 record with the given mean
Only64K(m) == Dir("65536" :> Estimates(JNum(m)))

PlainVariants == {Only64K(m) : m \in GoodMeans}

\* other variants: empty, unreadable or malformed records, records at other
\* sizes, records the arithmetic cannot digest, a mean twenty times the plain
\* one (a speedup of 0.05), a regular file where a directory is expected
OddVariants ==
    { Dir(<<>>),
      Dir("65536" :> SizeDir("absent", JArr)),
      Dir(Both("64" :> SizeDir("garbage", JArr),
               "65536" :> SizeDir("json", JObj(<<>>)))),
      Dir(Both("64" :> Estimates(JNum(1000)), "256" :> Estimates(JNum(250)))),
      Dir(Both("1024" :> Estimates(JNum(250)), "65536" :> Estimates(JNum(250)))),
      Dir("65536" :> Estimates(JNum(0))),
      Dir("65536" :> Estimates(JStr("fast"))),
      Dir(Both("64" :> Estimates(JNum(1000)),
               "65536" :> SizeDir("json", JObj([mean |-> JNum(5)])))),
      Dir("65536" :> Estimates(JNum(10000))),
      Dir("65536" :> SizeDir("not_utf8", JArr)),
      Dir("64" :> File),
      File }

Variants == {"Scalar", "LUT", "Specialized"}

\* all functions from a subset of the variant names to plain variants
PlainGroups == UNION { [S -> PlainVariants] : S \in SUBSET Variants }

\* one odd variant, the other variants all absent or all a plain record
OddGroups ==
    { Both(v :> o, g) :
        v \in Variants,
        o \in OddVariants,
        g \in {<<>>, [w \in Variants |-> Only64K(500)]} }

GroupDirs == {Dir(g) : g \in PlainGroups \cup OddGroups}

\* the groups tried as a second group: no variant, Scalar alone or all three
\* variants, each holding the same directory, which is a plain record, an
\* empty directory or a zero mean
UniformGroups ==
    UNION { [S -> {d}] :
              S \in {{}, {"Scalar"}, Variants},
              d \in {Only64K(500), Only64K(-1000), Dir(<<>>),
                     Dir("65536" :> Estimates(JNum(0)))} }

SecondGroupDirs == {Dir(g) : g \in UniformGroups}

\* every name the root may hold, in the order sorted() gives them
AllNames == <<"base64", "hex", "index.html", "report">>

\* entries that are never groups: criterion's report directory, a stray file
Extras ==
    Both("index.html" :> File, "report" :> Dir("Scalar" :> Only64K(500)))

Roots ==
    { Both(b, Both(h, Extras)) :
        b \in {<<>>} \cup {"base64" :> g : g \in GroupDirs},
        h \in {<<>>} \cup {"hex" :> g : g \in SecondGroupDirs} }

\* target/criterion: missing, a regular file, or a directory
FileSystems ==
    {[exists |-> FALSE, kind |-> "none", entries |-> <<>>],
     [exists |-> TRUE, kind |-> "file", entries |-> <<>>]}
        \cup {[exists |-> TRUE, kind |-> "dir", entries |-> r] : r \in Roots}

\* sorted(CRITERION_DIR.iterdir()): the names present, ascending; iterdir
\* raises on a root that is missing or not a directory
Listing(root) ==
    IF root.kind = "none" THEN Raise("FileNotFoundError")
    ELSE IF root.kind # "dir" THEN Raise("NotADirectoryError")
    ELSE Return(SelectSeq(AllNames, LAMBDA n : n \in DOMAIN root.entries))

\* group_dir.is_dir() and group_dir.name != "report"
IsGroup(root, name) == root.entries[name].kind = "dir" /\ name # "report"

----------------------------------------------------------------------------
(* print_full_table: the compact table *)

RootMissingMessage == "No benchmark results found. Run: cargo bench"

\* sys.exit(1), and the status of a process ended by an uncaught exception
ExitFailure == 1
ExitSuccess == 0

\* the size the compact table and the speedup section look at
LargestSize == 65536

table_paths == <<"Scalar", "LUT", "Specialized">>

TableBanner ==
    << "",
       Repeat("=", 90),
       "base-d Benchmark Summary (64KB input)",
       Repeat("=", 90),
       PadRight("Operation/Dictionary", 25) \o " " \o PadRight("Scalar", 12)
           \o " " \o PadRight("LUT", 12) \o " " \o PadRight("Specialized", 12)
           \o " " \o PadRight("Best", 10),
       Repeat("-", 90) >>

NoPath == [t |-> "None"]
SomePath(p) == [t |-> "str", v |-> p]

\* tp_mbps > best_throughput
Better(tp_mbps, best_throughput) == FloatLess(best_throughput, tp_mbps)

\* the loop over table_paths[i..] and the lines after it, giving the row
RECURSIVE RowLoop(_, _, _, _, _)
RowLoop(res, i, row, best_path, best_throughput) ==
    IF i > Len(table_paths)
    THEN IF best_path.t # "None" THEN row \o " " \o best_path.v ELSE row
    ELSE
        LET path == table_paths[i]
        IN  IF path \in DOMAIN res /\ LargestSize \in DOMAIN res[path]
            THEN
                LET tp      == res[path][LargestSize].throughput
                    tp_mbps == res[path][LargestSize].throughput_mbps
                    better  == Better(tp_mbps, best_throughput)
                IN  RowLoop(res, i + 1, row \o " " \o PadRight(tp, 12),
                            IF better THEN SomePath(path) ELSE best_path,
                            IF better THEN tp_mbps ELSE best_throughput)
            ELSE RowLoop(res, i + 1, row \o " " \o PadRight("-", 12),
                         best_path, best_throughput)

\* `if not results: continue`
SkipsRow(res) == DOMAIN res = {}

TableRow(name, res) == RowLoop(res, 1, PadRight(name, 25), NoPath, FromInt(0))

\* sorted(all_results.items()): the names collected, ascending
SortedNames(all) == SelectSeq(AllNames, LAMBDA n : n \in DOMAIN all)

----------------------------------------------------------------------------
(* print_detailed: the per-group report *)

detail_paths == <<"Scalar", "LUT", "Specialized">>
detail_sizes == <<64, 1024, 65536>>
speedup_paths == <<"LUT", "Specialized">>

DetailBanner ==
    << "", Repeat("=", 80), "base-d Benchmark Results (Detailed)", Repeat("=", 80) >>

GroupHeading(name) == << "", name, Repeat("-", 60) >>

NoResultsLine == "  No results yet"

DetailHeader ==
    << "  " \o PadRight("Path", 12) \o " " \o PadRight("64B", 10)
            \o " " \o PadRight("1KB", 10) \o " " \o PadRight("64KB", 10),
       "  " \o Repeat("-", 12) \o " " \o Repeat("-", 10)
            \o " " \o Repeat("-", 10) \o " " \o Repeat("-", 10) >>

\* the loop over detail_sizes[i..] building one variant row
RECURSIVE DetailCells(_, _, _)
DetailCells(by_size, i, row) ==
    IF i > Len(detail_sizes) THEN row
    ELSE
        LET size == detail_sizes[i]
        IN  IF size \in DOMAIN by_size
            THEN DetailCells(by_size, i + 1,
                             row \o " " \o PadRight(by_size[size].throughput, 10))
            ELSE DetailCells(by_size, i + 1, row \o " " \o PadRight("-", 10))

\* the loop over detail_paths[i..]: the variant rows printed
RECURSIVE DetailRows(_, _)
DetailRows(res, i) ==
    IF i > Len(detail_paths) THEN <<>>
    ELSE
        LET path == detail_paths[i]
        IN  IF path \notin DOMAIN res THEN DetailRows(res, i + 1)
            ELSE <<DetailCells(res[path], 1, "  " \o PadRight(path, 12))>>
                    \o DetailRows(res, i + 1)

\* SpeedupLine with the quotient taken the other way round
SpeedupLine_inverted(path, scalar_ns, mean_ns) ==
    "    " \o path \o ": " \o FormatFixed(FloatDiv(FromInt(mean_ns.v), FromInt(scalar_ns.v)), 1) \o "x"

\* scalar_ns / results[path][65536]["mean_ns"], printed with one decimal
SpeedupLine(path, scalar_ns, mean_ns) ==
    "    " \o path \o ": " \o FormatFixed(FloatDiv(FromInt(scalar_ns.v), FromInt(mean_ns.v)), 1) \o "x"

RECURSIVE SpeedupLines(_, _, _)
SpeedupLines(res, scalar_ns, i) ==
    IF i > Len(speedup_paths) THEN <<>>
    ELSE
        LET path == speedup_paths[i]
        IN  IF path \in DOMAIN res /\ LargestSize \in DOMAIN res[path]
            THEN <<SpeedupLine(path, scalar_ns, res[path][LargestSize].mean_ns)>>
                    \o SpeedupLines(res, scalar_ns, i + 1)
            ELSE SpeedupLines(res, scalar_ns, i + 1)

HasSpeedup(res) == "Scalar" \in DOMAIN res /\ LargestSize \in DOMAIN res["Scalar"]

SpeedupSection(res) ==
    IF HasSpeedup(res)
    THEN << "", "  Speedup vs Scalar (64KB):" >>
            \o SpeedupLines(res, res["Scalar"][LargestSize].mean_ns, 1)
    ELSE <<>>

\* `if not results`
NoResults(res) == DOMAIN res = {}

\* what one iteration prints after the heading, once summarize_dictionary returned
GroupBody(res) ==
    IF NoResults(res) THEN <<NoResultsLine>>
    ELSE DetailHeader \o DetailRows(res, 1) \o SpeedupSection(res)

----------------------------------------------------------------------------
(* The script as a state machine *)

Init ==
    /\ mode \in {"compact", "detailed"}
    /\ fs \in FileSystems
    /\ pc = "start"
    /\ groups = <<>>
    /\ idx = 1
    /\ all_results = <<>>
    /\ results = <<>>
    /\ out = <<>>
    /\ exit = <<>>
    /\ err = "none"
    /\ call = [fn |-> "none"]

\* the root check without its `not`
RootMissing_inverted(root) == root.exists

\* `not CRITERION_DIR.exists()`
RootMissing(root) == ~root.exists

\* the process dies of an uncaught exception, after printing `printed`
Die(exc, printed) ==
    /\ pc' = "done"
    /\ exit' = <<ExitFailure>>
    /\ err' = exc
    /\ out' = out \o printed

\* print_full_table up to the listing: the root check
print_full_table ==
    /\ pc = "start" /\ mode = "compact"
    /\ IF RootMissing(fs)
       THEN /\ out' = Append(out, RootMissingMessage)
            /\ exit' = <<ExitFailure>>
            /\ pc' = "done"
            /\ UNCHANGED <<groups, err>>
       ELSE IF Listing(fs).exc # "none"
       THEN /\ Die(Listing(fs).exc, <<>>)
            /\ UNCHANGED groups
       ELSE /\ groups' = Listing(fs).val
            /\ pc' = "collect"
            /\ UNCHANGED <<out, exit, err>>
    /\ UNCHANGED <<mode, fs, idx, all_results, results, call>>

\* one iteration of the collecting loop
Collect ==
    /\ pc = "collect" /\ idx <= Len(groups)
    /\ LET name == groups[idx]
       IN  IF ~IsGroup(fs, name)
           THEN /\ idx' = idx + 1
                /\ UNCHANGED <<pc, all_results, out, exit, err>>
           ELSE LET r == summarize_dictionary(fs.entries[name])
                IN  IF r.exc # "none"
                    THEN /\ Die(r.exc, <<>>)
                         /\ UNCHANGED <<idx, all_results>>
                    ELSE /\ all_results' = Store(all_results, name, r.val)
                         /\ idx' = idx + 1
                         /\ UNCHANGED <<pc, out, exit, err>>
    /\ UNCHANGED <<mode, fs, groups, results, call>>

\* the banner and column header, printed once collecting is over
TableHeader ==
    /\ pc = "collect" /\ idx > Len(groups)
    /\ out' = out \o TableBanner
    /\ pc' = "rows"
    /\ idx' = 1
    /\ UNCHANGED <<mode, fs, groups, all_results, results, exit, err, call>>

\* one iteration of the row loop
Row ==
    /\ pc = "rows" /\ idx <= Len(SortedNames(all_results))
    /\ LET name == SortedNames(all_results)[idx]
       IN  out' = IF SkipsRow(all_results[name]) THEN out
                  ELSE Append(out, TableRow(name, all_results[name]))
    /\ idx' = idx + 1
    /\ UNCHANGED <<mode, fs, pc, groups, all_results, results, exit, err, call>>

\* the closing rule; the script then ends normally
TableFooter ==
    /\ pc = "rows" /\ idx > Len(SortedNames(all_results))
    /\ out' = Append(out, Repeat("-", 90))
    /\ pc' = "done"
    /\ exit' = <<ExitSuccess>>
    /\ UNCHANGED <<mode, fs, groups, idx, all_results, results, err, call>>

\* print_detailed up to its loop: the root check and the banner
print_detailed ==
    /\ pc = "start" /\ mode = "detailed"
    /\ IF RootMissing(fs)
       THEN /\ out' = Append(out, RootMissingMessage)
            /\ exit' = <<ExitFailure>>
            /\ pc' = "done"
            /\ UNCHANGED <<groups, err>>
       ELSE IF Listing(fs).exc # "none"
       THEN /\ Die(Listing(fs).exc, <<>>)
            /\ UNCHANGED groups
       ELSE /\ groups' = Listing(fs).val
            /\ out' = out \o DetailBanner
            /\ pc' = "groups"
            /\ UNCHANGED <<exit, err>>
    /\ UNCHANGED <<mode, fs, idx, all_results, results, call>>

\* one iteration of the loop over groups
GroupBlock ==
    /\ pc = "groups" /\ idx <= Len(groups)
    /\ LET name == groups[idx]
       IN  IF ~IsGroup(fs, name)
           THEN /\ idx' = idx + 1
                /\ UNCHANGED <<pc, results, out, exit, err>>
           ELSE LET r == summarize_dictionary(fs.entries[name])
                IN  IF r.exc # "none"
                    THEN /\ Die(r.exc, GroupHeading(name))
                         /\ UNCHANGED <<idx, results>>
                    ELSE /\ results' = r.val
                         /\ out' = out \o GroupHeading(name) \o GroupBody(r.val)
                         /\ idx' = idx + 1
                         /\ UNCHANGED <<pc, exit, err>>
    /\ UNCHANGED <<mode, fs, groups, all_results, call>>

\* the loop is over; the script ends normally
DetailedEnd ==
    /\ pc = "groups" /\ idx > Len(groups)
    /\ pc' = "done"
    /\ exit' = <<ExitSuccess>>
    /\ UNCHANGED <<mode, fs, groups, idx, all_results, results, out, err, call>>

Next ==
    \/ print_full_table
    \/ Collect
    \/ TableHeader
    \/ Row
    \/ TableFooter
    \/ print_detailed
    \/ GroupBlock
    \/ DetailedEnd

Spec == Init /\ [][Next]_vars

TypeOK == pc \in {"start", "collect", "rows", "groups", "done", "unit"}

----------------------------------------------------------------------------
(* Direct calls of the leaf functions, one call per behaviour *)

\* the small means tried are 1 .. MaxUnitMeanNs
MaxUnitMeanNs == 20

\* with them: means around the GB/s threshold, means whose throughput is
\* exactly 1000 or exactly halfway between two printed values, a zero, a
\* negative and a non-numeric mean
UnitMeans ==
    {JNum(m) : m \in (1..MaxUnitMeanNs)
                        \cup {62500, 62501, 65536, 1000000, 265625, 9765625,
                              19531250, 1250000000}
                        \cup {0, -1000}}
        \cup {JStr("fast")}

UnitSizes ==
    {sizes[i] : i \in 1..Len(sizes)} \cup {0, 1, 1000, 1536, 278528, 1048576}

GoodStdDev == JObj([point_estimate |-> JNum(10)])

\* what a size directory may be or hold
UnitPaths ==
    { SizeDir("absent", JArr),
      SizeDir("new_is_file", JArr),
      SizeDir("is_dir", JArr),
      SizeDir("not_utf8", JArr),
      SizeDir("garbage", JArr),
      File,
      SizeDir("json", JArr),
      SizeDir("json", JNum(5)),
      SizeDir("json", JObj(<<>>)),
      SizeDir("json", JObj([mean |-> JNum(5), std_dev |-> GoodStdDev])),
      SizeDir("json", JObj([mean |-> JObj(<<>>), std_dev |-> GoodStdDev])),
      SizeDir("json", JObj([mean |-> JObj([point_estimate |-> JNum(1000)])])),
      SizeDir("json", JObj([mean    |-> JObj([point_estimate |-> JNum(1000)]),
                            std_dev |-> JStr("wide")])),
      SizeDir("json", JObj([mean    |-> JObj([point_estimate |-> JNum(1000)]),
                            std_dev |-> JObj(<<>>)])) }
        \cup {Estimates(m) : m \in UnitMeans}

InitUnit ==
    /\ mode = "unit"
    /\ fs = [exists |-> FALSE, kind |-> "none", entries |-> <<>>]
    /\ pc = "unit"
    /\ groups = <<>>
    /\ idx = 1
    /\ all_results = <<>>
    /\ results = <<>>
    /\ out = <<>>
    /\ exit = <<>>
    /\ err = "none"
    /\ call = [fn |-> "none"]

CallGetThroughput ==
    /\ pc = "unit" /\ call.fn = "none"
    /\ \E mean_ns \in UnitMeans, size_bytes \in UnitSizes :
          call' = [fn |-> "get_throughput", mean_ns |-> mean_ns,
                   size_bytes |-> size_bytes,
                   ret |-> get_throughput(mean_ns, size_bytes)]
    /\ UNCHANGED <<mode, fs, pc, groups, idx, all_results, results, out, exit, err>>

CallParseEstimates ==
    /\ pc = "unit" /\ call.fn = "none"
    /\ \E path \in UnitPaths :
          call' = [fn |-> "parse_estimates", path |-> path,
                   ret |-> parse_estimates(path)]
    /\ UNCHANGED <<mode, fs, pc, groups, idx, all_results, results, out, exit, err>>

NextUnit == CallGetThroughput \/ CallParseEstimates

SpecUnit == InitUnit /\ [][NextUnit]_vars

----------------------------------------------------------------------------
(* Vocabulary of the properties, stated on the input rather than on the   *)
(* structures the script builds                                           *)

StartsWith(s, p) == Len(s) >= Len(p) /\ SubSeq(s, 1, Len(p)) = p

\* both required fields can be read from the record of a size directory
Readable(sd) ==
    /\ sd.kind = "dir"
    /\ sd.file = "json"
    /\ sd.data.t = "obj"
    /\ "mean" \in DOMAIN sd.data.f
    /\ sd.data.f.mean.t = "obj"
    /\ "point_estimate" \in DOMAIN sd.data.f.mean.f
    /\ "std_dev" \in DOMAIN sd.data.f
    /\ sd.data.f.std_dev.t = "obj"
    /\ "point_estimate" \in DOMAIN sd.data.f.std_dev.f

\* the group directory gd holds a result for (variant, size)
HasResult(gd, v, size) ==
    /\ gd.kind = "dir"
    /\ v \in DOMAIN gd.entries
    /\ gd.entries[v].kind = "dir"
    /\ ToString(size) \in DOMAIN gd.entries[v].entries
    /\ Readable(gd.entries[v].entries[ToString(size)])

\* the mean point estimate recorded for (variant, size)
MeanAt(gd, v, size) ==
    gd.entries[v].entries[ToString(size)].data.f.mean.f.point_estimate

\* the float (size / (mean / 1e9)) / (1024 * 1024)
ThroughputOf(mean, size) ==
    FloatDiv(FloatDiv(FromInt(size), FloatDiv(FromInt(mean), FromInt(1000000000))),
             FromInt(1048576))

\* throughput of (variant, size) by the formula of the specification
ThroughputAt(gd, v, size) == ThroughputOf(MeanAt(gd, v, size).v, size)

DisplayAt(gd, v, size) == get_throughput(MeanAt(gd, v, size), size).val[2]

\* the text of a cell of the given width
CellAt(gd, v, size, width) ==
    IF HasResult(gd, v, size) THEN PadRight(DisplayAt(gd, v, size), width)
    ELSE PadRight("-", width)

VariantOrder == <<"Scalar", "LUT", "Specialized">>

\* the directories under the root that are groups, ascending
GroupNames ==
    SelectSeq(AllNames, LAMBDA n : /\ n \in DOMAIN fs.entries
                                   /\ fs.entries[n].kind = "dir"
                                   /\ n # "report")

\* the step that prints a row of the compact table
RowPrinted ==
    /\ pc = "rows" /\ pc' = "rows"
    /\ Len(out') = Len(out) + 1

RowName == SortedNames(all_results)[idx]

\* a step of the detailed loop that handled a group and did not die
BlockPrinted ==
    /\ pc = "groups" /\ pc' = "groups"
    /\ idx' = idx + 1
    /\ fs.entries[groups[idx]].kind = "dir"
    /\ groups[idx] # "report"

BlockLines == SubSeq(out', Len(out) + 1, Len(out'))

\* the name, three cells at 65536 in the fixed order: a compact row less Best
CompactCells(name, gd) ==
    PadRight(name, 25)
        \o " " \o CellAt(gd, "Scalar", 65536, 12)
        \o " " \o CellAt(gd, "LUT", 65536, 12)
        \o " " \o CellAt(gd, "Specialized", 65536, 12)

----------------------------------------------------------------------------
(* C1 *)

\* the variants with a result at 65536, mapped to their throughput
ThroughputsAt64K(gd) ==
    [v \in {w \in Variants : HasResult(gd, w, 65536)} |-> ThroughputAt(gd, v, 65536)]

\* v has a result in tp and no variant has a greater one
IsGreatest(tp, v) ==
    /\ v \in DOMAIN tp
    /\ \A w \in DOMAIN tp : ~FloatLess(tp[v], tp[w])

\* the Best column the claim describes, with its separating blank
ClaimedBest(gd) ==
    LET tp == ThroughputsAt64K(gd)
    IN  IF \E i \in 1..3 : IsGreatest(tp, VariantOrder[i])
        THEN LET i == CHOOSE k \in 1..3 :
                        /\ IsGreatest(tp, VariantOrder[k])
                        /\ \A j \in 1..(k - 1) : ~IsGreatest(tp, VariantOrder[j])
             IN  " " \o VariantOrder[i]
        ELSE ""

\* C1: every row of the compact table ends with the name of the variant whose
\* throughput at 65536 is the greatest among the variants with a result there,
\* the earliest in the order Scalar, LUT, Specialized among equals, and with
\* nothing when no variant has a result at 65536.
C1_BestIsGreatest ==
    [][RowPrinted =>
         out'[Len(out')] = CompactCells(RowName, fs.entries[RowName])
                               \o ClaimedBest(fs.entries[RowName])]_vars

----------------------------------------------------------------------------
(* C2 *)

NoVariantDirs(gd) ==
    \A v \in DOMAIN gd.entries \cap Variants : gd.entries[v].kind # "dir"

\* C2: a compact run that ends normally has printed exactly one row for every
\* group directory, in order, and the row of a group without variant
\* directories shows the name and three dashes.
C2_EveryGroupHasARow ==
    (mode = "compact" /\ pc = "done" /\ exit = <<0>>) =>
        /\ Len(out) = 6 + Len(GroupNames) + 1
        /\ \A i \in 1..Len(GroupNames) :
              /\ StartsWith(out[6 + i], PadRight(GroupNames[i], 25))
              /\ NoVariantDirs(fs.entries[GroupNames[i]]) =>
                    out[6 + i] = PadRight(GroupNames[i], 25)
                                    \o " " \o PadRight("-", 12)
                                    \o " " \o PadRight("-", 12)
                                    \o " " \o PadRight("-", 12)

----------------------------------------------------------------------------
(* C3 *)

HasNoResult(gd) ==
    \A v \in Variants : \A i \in 1..Len(sizes) : ~HasResult(gd, v, sizes[i])

\* C3: in detailed mode a group without any result, be it without variant
\* directories or with variant directories holding no readable record, prints
\* its name, the rule and the "No results yet" line, and nothing else.
C3_NoResultsYet ==
    [][(BlockPrinted /\ HasNoResult(fs.entries[groups[idx]])) =>
         BlockLines = <<"", groups[idx], Repeat("-", 60), "  No results yet">>]_vars

----------------------------------------------------------------------------
(* C4 *)

\* C4: parse_estimates never raises; it returns None unless both required
\* fields can be read, and an estimate when they can.
C4_AbsenceNeverRaised ==
    call.fn = "parse_estimates" =>
        /\ call.ret.exc = "none"
        /\ call.ret.val.t = "dict" <=> Readable(call.path)
        /\ call.ret.val.t = "None" <=> ~Readable(call.path)

----------------------------------------------------------------------------
(* C5 *)

\* C5: when the root directory exists the script ends with status 0 and
\* without an uncaught exception, whatever the directories and records hold.
C5_OnlyRootMissingAborts ==
    (pc = "done" /\ fs.exists /\ fs.kind = "dir") => (exit = <<0>> /\ err = "none")

----------------------------------------------------------------------------
(* C6 *)

\* C6: when the root directory is missing, in either mode, the output is
\* never anything but the one instruction line, and the script ends with it
\* printed and a non-zero status.
C6_RootMissing ==
    (~fs.exists /\ mode \in {"compact", "detailed"}) =>
        /\ out \in {<<>>, <<"No benchmark results found. Run: cargo bench">>}
        /\ pc = "done" =>
              /\ out = <<"No benchmark results found. Run: cargo bench">>
              /\ Len(exit) = 1 /\ exit[1] # 0

C6_Witness ==
    /\ ~fs.exists /\ mode = "detailed" /\ pc = "done"
    /\ out = <<RootMissingMessage>> /\ exit = <<1>>

----------------------------------------------------------------------------
(* C7 *)

\* the same quantity in exact arithmetic: the rational n/d in lowest terms
\* with a positive denominator, and the product of two rationals
RECURSIVE GCD(_, _)
GCD(a, b) == IF b = 0 THEN Abs(a) ELSE GCD(b, a % Abs(b))

Rat(n, d) ==
    LET g == GCD(n, d)
        sg == IF d < 0 THEN -1 ELSE 1
    IN  <<sg * (n \div g), sg * (d \div g)>>

RatMul(a, b) ==
    LET g1 == GCD(a[1], b[2])
        g2 == GCD(b[1], a[2])
    IN  Rat((a[1] \div g1) * (b[1] \div g2), (a[2] \div g2) * (b[2] \div g1))

ExactThroughput(m, s) == RatMul(Rat(s, m), Rat(1000000000, 1048576))

\* `k` decimal digits of r/d (0 <= r < d): <<digits as a number, remainder>>
RECURSIVE FracDigits(_, _, _, _)
FracDigits(acc, r, d, k) ==
    IF k = 0 THEN <<acc, r>>
    ELSE FracDigits(acc * 10 + ((r * 10) \div d), (r * 10) % d, d, k - 1)

\* the positive rational r lies exactly halfway between two numbers of
\* `decimals` decimal digits
Halfway(r, decimals) == 2 * FracDigits(0, r[1] % r[2], r[2], decimals)[2] = r[2]

\* the positive rational r rounded to `decimals` digits, not halfway
ExactFixed(r, decimals) ==
    LET fd    == FracDigits(0, r[1] % r[2], r[2], decimals)
        fr    == IF 2 * fd[2] > r[2] THEN fd[1] + 1 ELSE fd[1]
        carry == fr = Pow10(decimals)
    IN  ToString(IF carry THEN r[1] \div r[2] + 1 ELSE r[1] \div r[2])
            \o "." \o ZeroPadLeft(ToString(IF carry THEN 0 ELSE fr), decimals)

\* the display of the exact quantity, when rounding it is not a matter of
\* the last bit of the float: <<decided, display>>
ExactDisplay(m, s) ==
    LET q  == ExactThroughput(m, s)
        gb == RatMul(q, <<1, 1024>>)
    IN  IF q = <<1000, 1>> THEN <<FALSE, "">>
        ELSE IF q[1] \div q[2] >= 1000
        THEN <<~Halfway(gb, 2), ExactFixed(gb, 2) \o " GB/s">>
        ELSE <<~Halfway(q, 1), ExactFixed(q, 1) \o " MB/s">>

\* what the claim says of one call get_throughput(m, s) with m > 0 and s > 0
\* that returned <<mbps, display>>, the display of s = m = 65536 being `ex`:
\* the value is the float the formula gives, the unit follows the unrounded
\* float, and the display is that of the exact quantity wherever the exact
\* quantity decides it
ThroughputClaim(m, s, mbps, display, ex) ==
    LET geq == ~FloatLess(mbps, FromInt(1000))
    IN  /\ mbps = ThroughputOf(m, s)
        /\ display = IF geq
                     THEN FormatFixed(FloatDiv(mbps, FromInt(1024)), 2) \o " GB/s"
                     ELSE FormatFixed(mbps, 1) \o " MB/s"
        /\ ExactDisplay(m, s)[1] => display = ExactDisplay(m, s)[2]
        /\ (s = 1048576 /\ m = 1000000) =>
              (mbps = FromInt(1000) /\ display = "0.98 GB/s")
        /\ (s = 65536 /\ m = 65536) => display = ex

PositiveCall ==
    /\ call.fn = "get_throughput"
    /\ call.mean_ns.t = "num"
    /\ call.mean_ns.v > 0
    /\ call.size_bytes > 0

\* C7 as stated: for mean_ns > 0 and size_bytes > 0 the value is
\* size_bytes / (mean_ns / 1e9) / (1024 * 1024), the display is in GB/s with
\* two decimals exactly when the unrounded value is at least 1000 and in MB/s
\* with one decimal otherwise, 1048576 bytes in 1000000 ns give exactly 1000
\* and "0.98 GB/s", and 65536 bytes in 65536 ns give "976.6 MB/s".
C7_Original ==
    PositiveCall =>
        /\ call.ret.exc = "none"
        /\ ThroughputClaim(call.mean_ns.v, call.size_bytes,
                           call.ret.val[1], call.ret.val[2], "976.6 MB/s")

\* C7 amended: the same, except that 65536 bytes in 65536 ns give "953.7 MB/s".
C7_Throughput ==
    PositiveCall =>
        /\ call.ret.exc = "none"
        /\ ThroughputClaim(call.mean_ns.v, call.size_bytes,
                           call.ret.val[1], call.ret.val[2], "953.7 MB/s")

C7_Witness ==
    /\ call.fn = "get_throughput"
    /\ call.mean_ns = JNum(65536) /\ call.size_bytes = 65536
    /\ call.ret.exc = "none"
    /\ call.ret.val[2] = "953.7 MB/s"

----------------------------------------------------------------------------
(* C8 *)

SpeedupTitle == "  Speedup vs Scalar (64KB):"

\* the line the claim describes for a variant, if it has a result at 65536
ClaimedSpeedup(gd, v) ==
    IF HasResult(gd, v, 65536)
    THEN << "    " \o v \o ": "
               \o FormatFixed(FloatDiv(FromInt(MeanAt(gd, "Scalar", 65536).v),
                                       FromInt(MeanAt(gd, v, 65536).v)), 1)
               \o "x" >>
    ELSE <<>>

SpeedupClaim(gd, lines) ==
    LET at == {j \in 1..Len(lines) : lines[j] = SpeedupTitle}
    IN  IF HasResult(gd, "Scalar", 65536)
        THEN \E j \in at :
                /\ at = {j}
                /\ SubSeq(lines, j + 1, Len(lines))
                       = ClaimedSpeedup(gd, "LUT") \o ClaimedSpeedup(gd, "Specialized")
                /\ ( /\ MeanAt(gd, "Scalar", 65536) = JNum(1000)
                     /\ HasResult(gd, "LUT", 65536)
                     /\ MeanAt(gd, "LUT", 65536) = JNum(500) )
                       => lines[j + 1] = "    LUT: 2.0x"
        ELSE /\ at = {}
             /\ \A j \in 1..Len(lines) : ~StartsWith(lines[j], "    ")

\* C8: the block a group prints in detailed mode holds the speedup section
\* exactly when Scalar has a result at 65536; the section then ends the block
\* and holds one line for LUT and one for Specialized, in this order, for
\* those that have a result at 65536, each showing the Scalar mean divided by
\* the variant's mean with one decimal and an "x" (1000 and 500 give
\* "LUT: 2.0x"); without a Scalar result no line of the section is printed.
C8_Speedup ==
    [][BlockPrinted => SpeedupClaim(fs.entries[groups[idx]], BlockLines)]_vars

C8_Witness ==
    /\ mode = "detailed"
    /\ pc = "groups"
    /\ \E i \in 2..Len(out) :
          /\ out[i - 1] = SpeedupTitle
          /\ out[i] = "    LUT: 2.0x"

----------------------------------------------------------------------------
(* C9 *)

\* what the claim says of the structure res returned for the group gd
StructureClaim(gd, res) ==
    /\ DOMAIN res \subseteq Variants
    /\ \A v \in Variants :
          /\ v \in DOMAIN res <=> \E i \in 1..Len(sizes) : HasResult(gd, v, sizes[i])
          /\ v \in DOMAIN res =>
                /\ DOMAIN res[v] # {}
                /\ \A i \in 1..Len(sizes) :
                      sizes[i] \in DOMAIN res[v] <=> HasResult(gd, v, sizes[i])

\* C9: in a structure summarize_dictionary returned, a (variant, size) entry
\* is present exactly when the record of that size directory was read, and a
\* variant key is present exactly when some size of the variant has an entry:
\* no variant is kept with an empty entry.
C9_Structure ==
    \A name \in DOMAIN all_results :
        StructureClaim(fs.entries[name], all_results[name])

----------------------------------------------------------------------------
(* C10 *)

OnlyScalar64K(gd) ==
    /\ DOMAIN gd.entries = {"Scalar"}
    /\ HasResult(gd, "Scalar", 65536)
    /\ DOMAIN gd.entries["Scalar"].entries = {"65536"}

\* a compact row: the three cells at 65536, then nothing or one variant name
CompactRowClaim(name, gd, row) ==
    /\ StartsWith(row, CompactCells(name, gd))
    /\ \/ row = CompactCells(name, gd)
       \/ \E v \in Variants : row = CompactCells(name, gd) \o " " \o v
    /\ OnlyScalar64K(gd) =>
          row = PadRight(name, 25) \o " " \o PadRight(DisplayAt(gd, "Scalar", 65536), 12)
                    \o " " \o PadRight("-", 12) \o " " \o PadRight("-", 12)
                    \o " Scalar"

\* a detailed variant row: the three cells at 64, 1024 and 65536
DetailRowClaim(gd, v) ==
    "  " \o PadRight(v, 12)
        \o " " \o CellAt(gd, v, 64, 10)
        \o " " \o CellAt(gd, v, 1024, 10)
        \o " " \o CellAt(gd, v, 65536, 10)

DetailBlockClaim(gd, lines) ==
    \A v \in Variants :
        LET rows == {j \in 1..Len(lines) : StartsWith(lines[j], "  " \o PadRight(v, 12))}
        IN  /\ \A j \in rows : lines[j] = DetailRowClaim(gd, v)
            /\ Cardinality(rows) <= 1
            /\ (\E size \in {64, 1024, 65536} : HasResult(gd, v, size)) => rows # {}

\* C10: a cell shows the display string of its (variant, size) when a result
\* exists and a dash otherwise; a compact row is the name and the three cells
\* of Scalar, LUT, Specialized at 65536, followed at most by the Best name; a
\* detailed row is the variant and its three cells at 64, 1024, 65536; a
\* group holding only a Scalar/65536 record shows that cell, dashes, and
\* Best = Scalar.
C10_Cells ==
    [][ /\ RowPrinted =>
              CompactRowClaim(RowName, fs.entries[RowName], out'[Len(out')])
        /\ BlockPrinted =>
              DetailBlockClaim(fs.entries[groups[idx]], BlockLines) ]_vars

=============================================================================
